---- MODULE Spec2Model ----
(***************************************************************************)
(* Model of Saras (src/app.py): the upload store kept in                   *)
(* st.session_state.uploaded_files, the upload directory on disk, the      *)
(* operations process_uploads, delete_file, clear_all_files, the pure      *)
(* helpers get_file_stats and format_file_size, and the script runs of     *)
(* main() as Streamlit schedules them.                                     *)
(***************************************************************************)
EXTENDS Integers, Sequences, FiniteSets, TLC

VARIABLES
    uploaded_files,  \* st.session_state.uploaded_files: the ordered store
    disk,            \* the upload directory: path -> FileOf(bytes), or NoFile
    fsLog,           \* filesystem calls made by the last operation / run
    lastCall,        \* the last store operation called, its argument and result
    widget,          \* files currently held by the st.file_uploader widget
    pending,         \* why a script run of main() is requested ("none" = idle)
    click,           \* the button whose click triggered the requested run
    removed,         \* names removed by the run that requested the pending rerun
    size_str         \* last (size, label) pair rendered by format_file_size

vars == <<uploaded_files, disk, fsLog, lastCall, widget, pending, click, removed, size_str>>

-----------------------------------------------------------------------------
(* Bounds                                                                  *)

MaxBatch == 2      \* longest batch handed to process_uploads
MaxWidget == 2     \* most files the upload widget holds at once
MaxSmall == 40     \* sizes 0..MaxSmall are formatted, next to the threshold cases

-----------------------------------------------------------------------------
(* Data                                                                    *)

UPLOAD_DIR == "uploads"

PDF == "application/pdf"
PPTX == "application/vnd.openxmlformats-officedocument.presentationml.presentation"
OCTET == "application/octet-stream"

\* What the upload directory holds at a path: no file, or a file and its bytes.
NoFile == [exists |-> FALSE, data |-> <<>>]
FileOf(bytes) == [exists |-> TRUE, data |-> bytes]

\* An uploaded file object as process_uploads sees it: name, type, the bytes
\* read() returns, and whether the object has a getvalue attribute.
UploadedFile(n, t, d, g) == [name |-> n, type |-> t, data |-> d, getvalue |-> g]

\* The files a user can submit. Two of them share the name "a.pdf" and
\* differ in type and bytes.
Files ==
    { UploadedFile("a.pdf", PDF, <<1>>, TRUE),
      UploadedFile("b.pdf", PDF, <<>>, TRUE),
      UploadedFile("d.pptx", PPTX, <<3>>, TRUE),
      UploadedFile("e.pptx", PPTX, <<1, 2>>, TRUE),
      UploadedFile("a.pdf", OCTET, <<9, 9>>, FALSE) }

\* The files the upload widget of the script-run model offers.
WidgetFiles ==
    { UploadedFile("a.pdf", PDF, <<1>>, TRUE),
      UploadedFile("d.pptx", PPTX, <<3>>, TRUE),
      UploadedFile("a.pdf", OCTET, <<9, 9>>, FALSE) }

FileNames == {f.name : f \in Files}

\* file_path = UPLOAD_DIR / file.name
PathOf(name) == <<UPLOAD_DIR, name>>

Paths == {PathOf(n) : n \in FileNames}

SeqsUpTo(S, n) == UNION {[1..k -> S] : k \in 0..n}

Batches == SeqsUpTo(Files, MaxBatch)

Names(files) == {files[i].name : i \in 1..Len(files)}

NoCall == [op |-> "none", arg |-> 0, ret |-> FALSE]
NoClick == [button |-> "none", index |-> 0]

-----------------------------------------------------------------------------
(* Filesystem                                                              *)

\* open(file_path, "wb").write(bytes): creates or truncates the file.
write_file(dk, path, bytes) == [dk EXCEPT ![path] = FileOf(bytes)]

\* os.remove(path): raises when the file is missing or, by the oracle ok,
\* when the filesystem refuses (permissions).
os_remove(dk, path, ok) ==
    IF ok /\ dk[path] # NoFile
    THEN [disk |-> [dk EXCEPT ![path] = NoFile], raised |-> FALSE]
    ELSE [disk |-> dk, raised |-> TRUE]

-----------------------------------------------------------------------------
(* process_uploads                                                         *)

\* len(file.getvalue()) if hasattr(file, 'getvalue') else 0
SizeOf(file) == IF file.getvalue THEN Len(file.data) ELSE 0

NewEntry(file) ==
    [name |-> file.name, path |-> PathOf(file.name), type |-> file.type, size |-> SizeOf(file)]

\* The for loop of process_uploads over the remaining items.
RECURSIVE process_loop(_, _, _, _, _)
process_loop(files, st, dk, log, new_files_added) ==
    IF files = <<>>
    THEN [store |-> st, disk |-> dk, log |-> log, new_files_added |-> new_files_added]
    ELSE LET file == Head(files)
             file_path == PathOf(file.name)
             existing_names == [i \in 1..Len(st) |-> st[i].name]
         IN  IF \A i \in 1..Len(existing_names) : existing_names[i] # file.name
             THEN process_loop(Tail(files),
                               Append(st, NewEntry(file)),
                               write_file(dk, file_path, file.data),
                               Append(log, [op |-> "write", path |-> file_path,
                                            existed |-> dk[file_path] # NoFile]),
                               TRUE)
             ELSE process_loop(Tail(files), st, dk, log, new_files_added)

\* Variant: existing_names is computed once, before the loop.
process_uploads_hoisted(files, st, dk) ==
    LET existing_names == Names(st)
        RECURSIVE loop(_, _, _, _, _)
        loop(fs, s, d, log, added) ==
            IF fs = <<>>
            THEN [store |-> s, disk |-> d, log |-> log, new_files_added |-> added,
                  rerun |-> added]
            ELSE IF Head(fs).name \notin existing_names
                 THEN loop(Tail(fs), Append(s, NewEntry(Head(fs))),
                           write_file(d, PathOf(Head(fs).name), Head(fs).data),
                           Append(log, [op |-> "write", path |-> PathOf(Head(fs).name),
                                        existed |-> d[PathOf(Head(fs).name)] # NoFile]),
                           TRUE)
                 ELSE loop(Tail(fs), s, d, log, added)
    IN  loop(files, st, dk, <<>>, FALSE)

\* Variant: an item whose name is already present replaces the stored entry.
process_uploads_replace(files, st, dk) ==
    LET RECURSIVE loop(_, _, _, _, _)
        loop(fs, s, d, log, added) ==
            IF fs = <<>>
            THEN [store |-> s, disk |-> d, log |-> log, new_files_added |-> added,
                  rerun |-> added]
            ELSE LET file == Head(fs)
                     w == write_file(d, PathOf(file.name), file.data)
                     l == Append(log, [op |-> "write", path |-> PathOf(file.name),
                                       existed |-> d[PathOf(file.name)] # NoFile])
                 IN  IF file.name \notin Names(s)
                     THEN loop(Tail(fs), Append(s, NewEntry(file)), w, l, TRUE)
                     ELSE loop(Tail(fs),
                               [i \in 1..Len(s) |->
                                   IF s[i].name = file.name THEN NewEntry(file) ELSE s[i]],
                               w, l, added)
    IN  loop(files, st, dk, <<>>, FALSE)

\* Variant: the bytes are written before the name is looked up in the store.
process_uploads_writefirst(files, st, dk) ==
    LET RECURSIVE loop(_, _, _, _, _)
        loop(fs, s, d, log, added) ==
            IF fs = <<>>
            THEN [store |-> s, disk |-> d, log |-> log, new_files_added |-> added,
                  rerun |-> added]
            ELSE LET file == Head(fs)
                     w == write_file(d, PathOf(file.name), file.data)
                     l == Append(log, [op |-> "write", path |-> PathOf(file.name),
                                       existed |-> d[PathOf(file.name)] # NoFile])
                 IN  IF file.name \notin Names(s)
                     THEN loop(Tail(fs), Append(s, NewEntry(file)), w, l, TRUE)
                     ELSE loop(Tail(fs), s, w, l, added)
    IN  loop(files, st, dk, <<>>, FALSE)

\* Variant: st.rerun() is called for every non-empty batch.
process_uploads_rerun(files, st, dk) ==
    IF files = <<>>
    THEN [store |-> st, disk |-> dk, log |-> <<>>, new_files_added |-> FALSE, rerun |-> FALSE]
    ELSE LET r == process_loop(files, st, dk, <<>>, FALSE)
         IN  [store |-> r.store, disk |-> r.disk, log |-> r.log,
              new_files_added |-> r.new_files_added, rerun |-> TRUE]

process_uploads(files, st, dk) ==
    IF files = <<>>
    THEN [store |-> st, disk |-> dk, log |-> <<>>, new_files_added |-> FALSE, rerun |-> FALSE]
    ELSE LET r == process_loop(files, st, dk, <<>>, FALSE)
         IN  [store |-> r.store, disk |-> r.disk, log |-> r.log,
              new_files_added |-> r.new_files_added, rerun |-> r.new_files_added]

-----------------------------------------------------------------------------
(* delete_file, clear_all_files                                            *)

\* list.pop(index), index counted from 0
Pop(s, index) == SubSeq(s, 1, index) \o SubSeq(s, index + 2, Len(s))

\* Variant: pop() without the index removes the last entry.
delete_file_poplast(index, ok, st, dk) ==
    LET file_info == st[index + 1]
        r == os_remove(dk, file_info.path, ok)
    IN  [store |-> SubSeq(st, 1, Len(st) - 1),
         disk |-> r.disk,
         log |-> <<[op |-> "remove", path |-> file_info.path, raised |-> r.raised]>>]

\* Variant: the entry is kept when the disk removal fails.
delete_file_rollback(index, ok, st, dk) ==
    LET file_info == st[index + 1]
        r == os_remove(dk, file_info.path, ok)
    IN  [store |-> IF r.raised THEN st ELSE Pop(st, index),
         disk |-> r.disk,
         log |-> <<[op |-> "remove", path |-> file_info.path, raised |-> r.raised]>>]

delete_file(index, ok, st, dk) ==
    LET file_info == st[index + 1]
        r == os_remove(dk, file_info.path, ok)
    IN  [store |-> Pop(st, index),
         disk |-> r.disk,
         log |-> <<[op |-> "remove", path |-> file_info.path, raised |-> r.raised]>>]

\* The for loop of clear_all_files; fails is the set of paths whose removal
\* the filesystem refuses.
RECURSIVE clear_loop(_, _, _, _)
clear_loop(files, fails, dk, log) ==
    IF files = <<>>
    THEN [disk |-> dk, log |-> log]
    ELSE LET file_info == Head(files)
             r == os_remove(dk, file_info.path, file_info.path \notin fails)
         IN  clear_loop(Tail(files), fails, r.disk,
                        Append(log, [op |-> "remove", path |-> file_info.path,
                                     raised |-> r.raised]))

\* Variant: one try around the whole loop, so the first failure ends it.
clear_all_files_abort(fails, st, dk) ==
    LET RECURSIVE loop(_, _, _)
        loop(files, d, log) ==
            IF files = <<>>
            THEN [disk |-> d, log |-> log]
            ELSE LET r == os_remove(d, Head(files).path, Head(files).path \notin fails)
                     l == Append(log, [op |-> "remove", path |-> Head(files).path,
                                       raised |-> r.raised])
                 IN  IF r.raised THEN [disk |-> r.disk, log |-> l]
                     ELSE loop(Tail(files), r.disk, l)
        r == loop(st, dk, <<>>)
    IN  [store |-> <<>>, disk |-> r.disk, log |-> r.log]

clear_all_files(fails, st, dk) ==
    LET r == clear_loop(st, fails, dk, <<>>)
    IN  [store |-> <<>>, disk |-> r.disk, log |-> r.log]

-----------------------------------------------------------------------------
(* get_file_stats                                                          *)

RECURSIVE pdf_sum(_)
pdf_sum(files) ==
    IF files = <<>> THEN 0
    ELSE (IF Head(files).type = PDF THEN 1 ELSE 0) + pdf_sum(Tail(files))

\* Variant: the third count is the number of PPTX entries.
get_file_stats_pptx(files) ==
    <<Len(files), pdf_sum(files),
      Cardinality({i \in 1..Len(files) : files[i].type = PPTX})>>

get_file_stats(files) ==
    LET total_files == Len(files)
        pdf_count == pdf_sum(files)
        pptx_count == total_files - pdf_count
    IN  <<total_files, pdf_count, pptx_count>>

-----------------------------------------------------------------------------
(* format_file_size                                                        *)

\* num/den rounded to an integer, ties to the even neighbour. size / 1024 and
\* size / (1024 * 1024) are exact as floats (a division by a power of two)
\* and the .1f conversion rounds the exact value, ties to even.
RoundHalfEven(num, den) ==
    LET q == num \div den
        r == num % den
    IN  IF 2 * r < den THEN q
        ELSE IF 2 * r > den THEN q + 1
        ELSE IF q % 2 = 0 THEN q ELSE q + 1

\* f"{num / den:.1f}"
Fixed1(num, den) ==
    LET t == RoundHalfEven(10 * num, den)
    IN  ToString(t \div 10) \o "." \o ToString(t % 10)

\* Variant: the thresholds are compared with >=.
format_file_size_ge(size) ==
    IF size >= 1024 * 1024
    THEN Fixed1(size, 1024 * 1024) \o " MB"
    ELSE IF size >= 1024
    THEN Fixed1(size, 1024) \o " KB"
    ELSE ToString(size) \o " bytes"

format_file_size(size) ==
    IF size > 1024 * 1024
    THEN Fixed1(size, 1024 * 1024) \o " MB"
    ELSE IF size > 1024
    THEN Fixed1(size, 1024) \o " KB"
    ELSE ToString(size) \o " bytes"

\* The sizes formatted: small ones, the neighbourhoods of both thresholds,
\* exact ties of the rounding and the documented examples.
SizesTried ==
    (0..MaxSmall)
    \cup {1024 + d : d \in (0 - MaxSmall)..MaxSmall}
    \cup {1024 * 1024 + d : d \in (0 - MaxSmall)..MaxSmall}
    \cup {1280, 1500, 1792, 1310720, 1835008, 2000000, 5242880}

-----------------------------------------------------------------------------
(* The store operations called in any order                                *)

Init ==
    /\ uploaded_files = <<>>
    /\ disk = [p \in Paths |-> NoFile]
    /\ fsLog = <<>>
    /\ lastCall = NoCall
    /\ widget = <<>>
    /\ pending = "none"
    /\ click = NoClick
    /\ removed = {}
    /\ size_str = [size |-> 0, label |-> format_file_size(0)]

ProcessUploads ==
    \E batch \in Batches :
        LET r == process_uploads(batch, uploaded_files, disk)
        IN  /\ uploaded_files' = r.store
            /\ disk' = r.disk
            /\ fsLog' = r.log
            /\ lastCall' = [op |-> "process_uploads", arg |-> Len(batch),
                            ret |-> r.new_files_added]
            /\ UNCHANGED <<widget, pending, click, removed, size_str>>

DeleteFile ==
    \E index \in 0..(Len(uploaded_files) - 1), ok \in BOOLEAN :
        LET r == delete_file(index, ok, uploaded_files, disk)
        IN  /\ uploaded_files' = r.store
            /\ disk' = r.disk
            /\ fsLog' = r.log
            /\ lastCall' = [op |-> "delete_file", arg |-> index, ret |-> FALSE]
            /\ UNCHANGED <<widget, pending, click, removed, size_str>>

ClearAllFiles ==
    /\ Len(uploaded_files) # 0
    /\ \E fails \in SUBSET {uploaded_files[i].path : i \in 1..Len(uploaded_files)} :
        LET r == clear_all_files(fails, uploaded_files, disk)
        IN  /\ uploaded_files' = r.store
            /\ disk' = r.disk
            /\ fsLog' = r.log
            /\ lastCall' = [op |-> "clear_all_files", arg |-> Len(uploaded_files),
                            ret |-> FALSE]
            /\ UNCHANGED <<widget, pending, click, removed, size_str>>

Next == ProcessUploads \/ DeleteFile \/ ClearAllFiles

Spec == Init /\ [][Next]_vars

-----------------------------------------------------------------------------
(* render_file_list formatting the size of an entry                        *)

FormatFileSize ==
    \E size \in SizesTried :
        /\ size_str' = [size |-> size, label |-> format_file_size(size)]
        /\ UNCHANGED <<uploaded_files, disk, fsLog, lastCall, widget, pending, click, removed>>

FmtNext == FormatFileSize

FmtSpec == Init /\ [][FmtNext]_vars

-----------------------------------------------------------------------------
(* The script runs of main()                                               *)

\* A session starts with a requested first run.
MainInit ==
    /\ uploaded_files = <<>>
    /\ disk = [p \in Paths |-> NoFile]
    /\ fsLog = <<>>
    /\ lastCall = NoCall
    /\ widget = <<>>
    /\ pending = "load"
    /\ click = NoClick
    /\ removed = {}
    /\ size_str = [size |-> 0, label |-> format_file_size(0)]

Idle == pending = "none"

\* The user changes the selection held by the file_uploader widget.
UserSelectFiles ==
    /\ Idle
    /\ \E w \in SeqsUpTo(WidgetFiles, MaxWidget) :
        /\ w # widget
        /\ widget' = w
    /\ pending' = "user"
    /\ click' = NoClick
    /\ removed' = {}
    /\ UNCHANGED <<uploaded_files, disk, fsLog, lastCall, size_str>>

\* The user clicks the delete button rendered for entry index.
UserClickDelete ==
    /\ Idle
    /\ \E index \in 0..(Len(uploaded_files) - 1) :
        click' = [button |-> "delete", index |-> index]
    /\ pending' = "user"
    /\ removed' = {}
    /\ UNCHANGED <<uploaded_files, disk, fsLog, lastCall, widget, size_str>>

\* The action buttons are rendered only for a non-empty store.
UserClickClear ==
    /\ Idle
    /\ Len(uploaded_files) # 0
    /\ click' = [button |-> "clear", index |-> 0]
    /\ pending' = "user"
    /\ removed' = {}
    /\ UNCHANGED <<uploaded_files, disk, fsLog, lastCall, widget, size_str>>

UserClickGenerate ==
    /\ Idle
    /\ Len(uploaded_files) # 0
    /\ click' = [button |-> "generate", index |-> 0]
    /\ pending' = "user"
    /\ removed' = {}
    /\ UNCHANGED <<uploaded_files, disk, fsLog, lastCall, widget, size_str>>

\* A run of main() in which process_uploads adds files and calls st.rerun().
RunUploadRerun ==
    /\ ~Idle
    /\ LET r == process_uploads(widget, uploaded_files, disk)
       IN  /\ r.rerun
           /\ uploaded_files' = r.store
           /\ disk' = r.disk
           /\ fsLog' = r.log
           /\ lastCall' = [op |-> "process_uploads", arg |-> Len(widget),
                           ret |-> r.new_files_added]
    /\ pending' = "upload"
    /\ click' = NoClick
    /\ removed' = {}
    /\ UNCHANGED <<widget, size_str>>

\* A run of main() that reaches the clicked delete button: delete_file(i).
RunDelete ==
    /\ ~Idle
    /\ click.button = "delete"
    /\ LET r == process_uploads(widget, uploaded_files, disk)
       IN  /\ ~r.rerun
           /\ \E ok \in BOOLEAN :
               LET d == delete_file(click.index, ok, r.store, r.disk)
               IN  /\ uploaded_files' = d.store
                   /\ disk' = d.disk
                   /\ fsLog' = r.log \o d.log
                   /\ removed' = {r.store[click.index + 1].name}
    /\ lastCall' = [op |-> "delete_file", arg |-> click.index, ret |-> FALSE]
    /\ pending' = "delete"
    /\ click' = NoClick
    /\ UNCHANGED <<widget, size_str>>

\* A run of main() that reaches the clicked clear button: clear_all_files().
RunClear ==
    /\ ~Idle
    /\ click.button = "clear"
    /\ LET r == process_uploads(widget, uploaded_files, disk)
       IN  /\ ~r.rerun
           /\ Len(r.store) # 0
           /\ \E fails \in SUBSET {r.store[i].path : i \in 1..Len(r.store)} :
               LET c == clear_all_files(fails, r.store, r.disk)
               IN  /\ uploaded_files' = c.store
                   /\ disk' = c.disk
                   /\ fsLog' = r.log \o c.log
                   /\ removed' = Names(r.store)
                   /\ lastCall' = [op |-> "clear_all_files", arg |-> Len(r.store),
                                   ret |-> FALSE]
    /\ pending' = "clear"
    /\ click' = NoClick
    /\ UNCHANGED <<widget, size_str>>

\* A run of main() that renders the page to its end.
RunComplete ==
    /\ ~Idle
    /\ click.button \in {"none", "generate"}
    /\ LET r == process_uploads(widget, uploaded_files, disk)
       IN  /\ ~r.rerun
           /\ uploaded_files' = r.store
           /\ disk' = r.disk
           /\ fsLog' = r.log
           /\ lastCall' = [op |-> "process_uploads", arg |-> Len(widget),
                           ret |-> r.new_files_added]
    /\ pending' = "none"
    /\ click' = NoClick
    /\ removed' = {}
    /\ UNCHANGED <<widget, size_str>>

RunMain == RunUploadRerun \/ RunDelete \/ RunClear \/ RunComplete

MainNext ==
    \/ UserSelectFiles
    \/ UserClickDelete
    \/ UserClickClear
    \/ UserClickGenerate
    \/ RunUploadRerun
    \/ RunDelete
    \/ RunClear
    \/ RunComplete

\* Streamlit executes every requested run.
MainSpec == MainInit /\ [][MainNext]_vars /\ WF_vars(RunMain)

-----------------------------------------------------------------------------
(* Properties of the store operations                                      *)

Entries == 1..Len(uploaded_files)

\* C1: in every reachable state no two entries of the store have the same name.
NoDuplicateNames ==
    \A i, j \in Entries : i # j => uploaded_files[i].name # uploaded_files[j].name

\* A batch of two or more items from the empty store left one entry.
NoDuplicateNamesWitness ==
    /\ lastCall.op = "process_uploads"
    /\ lastCall.arg >= 2
    /\ Len(fsLog) = 1
    /\ Len(uploaded_files) = 1

\* C2: between operations, every entry of the store has a file on disk at its
\* path UPLOAD_DIR/name.
EntriesOnDisk ==
    \A i \in Entries :
        /\ uploaded_files[i].path = PathOf(uploaded_files[i].name)
        /\ disk[uploaded_files[i].path] # NoFile

\* A deletion whose disk removal failed, with entries left in the store.
EntriesOnDiskWitness ==
    /\ lastCall.op = "delete_file"
    /\ fsLog[1].raised
    /\ Len(uploaded_files) >= 2

\* The entries process_uploads is to append for a batch: one for the first
\* occurrence of each name that the store does not hold, in batch order.
FirstNewOccurrences(batch, st) ==
    LET idx == [i \in 1..Len(batch) |-> i]
        IsFirstNew(i) ==
            /\ batch[i].name \notin Names(st)
            /\ \A j \in 1..(i - 1) : batch[j].name # batch[i].name
        sel == SelectSeq(idx, IsFirstNew)
    IN  [k \in 1..Len(sel) |->
            [name |-> batch[sel[k]].name,
             path |-> <<UPLOAD_DIR, batch[sel[k]].name>>,
             type |-> batch[sel[k]].type,
             size |-> IF batch[sel[k]].getvalue THEN Len(batch[sel[k]].data) ELSE 0]]

\* C3: from every reachable store and for every batch, process_uploads leaves
\* the previous entries unchanged in place and appends, in batch order, one
\* entry for the first occurrence of each name not already in the store; it
\* reports that files were added exactly when it appended one.
AppendsFirstOccurrences ==
    \A batch \in Batches :
        LET r == process_uploads(batch, uploaded_files, disk)
            new == FirstNewOccurrences(batch, uploaded_files)
        IN  /\ r.store = uploaded_files \o new
            /\ r.new_files_added = (new # <<>>)

\* A call with two items appended one entry behind an entry already stored.
AppendsFirstOccurrencesWitness ==
    /\ lastCall.op = "process_uploads"
    /\ lastCall.arg = 2
    /\ Len(fsLog) = 1
    /\ Len(uploaded_files) >= 2

\* C4 as stated: process_uploads never writes to a path at which a file
\* exists on disk.
NeverWritesExistingPath ==
    \A i \in 1..Len(fsLog) : fsLog[i].op = "write" => ~fsLog[i].existed

\* C4 amended: process_uploads never writes to the path of a name that is in
\* the store, so files of stored entries keep their bytes; every write over
\* an existing file is to a path whose entry had been removed from the store.
NeverWritesStoredPath ==
    [][lastCall'.op = "process_uploads" =>
        /\ \A i \in Entries :
              disk'[uploaded_files[i].path] = disk[uploaded_files[i].path]
        /\ \A k \in 1..Len(fsLog') :
              fsLog'[k].path \notin {uploaded_files[i].path : i \in Entries}
      ]_vars

\* One call skipped an item whose name is stored and overwrote a file left
\* on disk by a deletion whose removal failed.
NeverWritesStoredPathWitness ==
    /\ lastCall.op = "process_uploads"
    /\ Len(fsLog) < lastCall.arg
    /\ \E k \in 1..Len(fsLog) : fsLog[k].existed

\* C5: delete_file(index) leaves the previous sequence without its entry at
\* index, the others in order, whether or not the disk removal succeeds; a
\* successful removal removes that entry's file and no other, a failed one
\* leaves the disk as it was.
DeleteRemovesExactlyOne ==
    [][lastCall'.op = "delete_file" =>
        LET i == lastCall'.arg + 1
            n == Len(uploaded_files)
        IN  /\ i \in 1..n
            /\ Len(uploaded_files') = n - 1
            /\ \A j \in 1..(n - 1) :
                  uploaded_files'[j] = IF j < i THEN uploaded_files[j]
                                       ELSE uploaded_files[j + 1]
            /\ fsLog'[1].path = uploaded_files[i].path
            /\ IF fsLog'[1].raised
               THEN disk' = disk
               ELSE /\ disk[uploaded_files[i].path] # NoFile
                    /\ disk' = [disk EXCEPT ![uploaded_files[i].path] = NoFile]
      ]_vars

\* A failed removal of an entry that has entries before and after it.
DeleteRemovesExactlyOneWitness ==
    /\ lastCall.op = "delete_file"
    /\ lastCall.arg = 1
    /\ fsLog[1].raised
    /\ Len(uploaded_files) = 2

\* C6: clear_all_files on a non-empty store leaves the store empty and calls
\* os.remove once on every entry's path, in store order, whatever removals fail.
ClearEmptiesAndAttemptsAll ==
    [][lastCall'.op = "clear_all_files" =>
        /\ uploaded_files # <<>>
        /\ uploaded_files' = <<>>
        /\ Len(fsLog') = Len(uploaded_files)
        /\ \A i \in Entries :
              /\ fsLog'[i].op = "remove"
              /\ fsLog'[i].path = uploaded_files[i].path
              /\ disk'[uploaded_files[i].path] =
                    IF fsLog'[i].raised THEN disk[uploaded_files[i].path] ELSE NoFile
      ]_vars

\* A clear whose first removal failed and whose later removal succeeded.
ClearEmptiesAndAttemptsAllWitness ==
    /\ lastCall.op = "clear_all_files"
    /\ uploaded_files = <<>>
    /\ Len(fsLog) >= 3
    /\ fsLog[1].raised
    /\ ~fsLog[2].raised
    /\ fsLog[3].raised

\* Three PDF and two PPTX entries.
MixedFiles ==
    <<[name |-> "1.pdf", path |-> PathOf("1.pdf"), type |-> PDF, size |-> 1],
      [name |-> "2.pptx", path |-> PathOf("2.pptx"), type |-> PPTX, size |-> 2],
      [name |-> "3.pdf", path |-> PathOf("3.pdf"), type |-> PDF, size |-> 3],
      [name |-> "4.pptx", path |-> PathOf("4.pptx"), type |-> PPTX, size |-> 4],
      [name |-> "5.pdf", path |-> PathOf("5.pdf"), type |-> PDF, size |-> 5]>>

\* C7: in every reachable store state get_file_stats returns the number of
\* entries, the number of entries whose type is exactly application/pdf, and
\* their difference, both counts non-negative; 3 PDF and 2 PPTX give (5, 3, 2).
StatsCountEntries ==
    LET s == get_file_stats(uploaded_files)
        pdfs == {i \in Entries : uploaded_files[i].type = "application/pdf"}
    IN  /\ s[1] = Len(uploaded_files)
        /\ s[2] = Cardinality(pdfs)
        /\ s[3] = s[1] - s[2]
        /\ s[1] = s[2] + s[3]
        /\ s[2] >= 0 /\ s[3] >= 0
        /\ get_file_stats(MixedFiles) = <<5, 3, 2>>

\* A store of a PDF entry, PPTX entries and an entry of another type.
StatsCountEntriesWitness ==
    /\ get_file_stats(uploaded_files) = <<4, 1, 3>>
    /\ \E i \in Entries : uploaded_files[i].type \notin {PDF, PPTX}

-----------------------------------------------------------------------------
(* Properties of format_file_size                                          *)

\* t tenths is a nearest multiple of one tenth to num/den.
NearestTenth(t, num, den) ==
    2 * (IF 10 * num >= t * den THEN 10 * num - t * den ELSE t * den - 10 * num) <= den

OneDecimal(t) == ToString(t \div 10) \o "." \o ToString(t % 10)

\* C8: a size above 1,048,576 is rendered in MB, a size above 1,024 and at
\* most 1,048,576 in KB, the quotient rounded to one decimal, and a size of
\* at most 1,024 as the integer followed by "bytes"; 0, 1500, 2,000,000 and
\* 5,242,880 give "0 bytes", "1.5 KB", "1.9 MB" and "5.0 MB".
SizeLabelByThreshold ==
    LET n == size_str.size
        l == size_str.label
    IN  /\ n > 1048576 =>
              \E t \in 0..((10 * n) \div 1048576 + 1) :
                  NearestTenth(t, n, 1048576) /\ l = OneDecimal(t) \o " MB"
        /\ (n > 1024 /\ n <= 1048576) =>
              \E t \in 0..((10 * n) \div 1024 + 1) :
                  NearestTenth(t, n, 1024) /\ l = OneDecimal(t) \o " KB"
        /\ n <= 1024 => l = ToString(n) \o " bytes"
        /\ n = 0 => l = "0 bytes"
        /\ n = 1500 => l = "1.5 KB"
        /\ n = 2000000 => l = "1.9 MB"
        /\ n = 5242880 => l = "5.0 MB"

\* 2,000,000 bytes were rendered as "1.9 MB".
SizeLabelByThresholdWitness ==
    size_str = [size |-> 2000000, label |-> "1.9 MB"]

-----------------------------------------------------------------------------
(* Properties of the script runs                                           *)

\* C9 as stated: in the run that follows the rerun requested by delete_file or
\* clear_all_files, the removed names are not added back to the store and
\* their files are not written again.
RemovedStaysRemoved ==
    [][(pending \in {"delete", "clear"}) =>
        /\ \A n \in removed : n \notin Names(uploaded_files')
        /\ \A k \in 1..Len(fsLog') :
              ~(fsLog'[k].op = "write" /\ fsLog'[k].path \in {PathOf(n) : n \in removed})
      ]_vars

\* C10: process_uploads requests a rerun only in a run in which it added an
\* entry; the run that follows such a rerun adds nothing and requests no
\* rerun; and every requested run leads to a run that completes.
RerunsQuiesce ==
    /\ [][pending' = "upload" => Len(uploaded_files') > Len(uploaded_files)]_vars
    /\ [][pending = "upload" =>
            /\ pending' = "none"
            /\ uploaded_files' = uploaded_files
            /\ disk' = disk]_vars
    /\ (pending # "none") ~> (pending = "none")

\* A rerun requested by process_uploads is pending after two files were added.
RerunsQuiesceWitness ==
    /\ pending = "upload"
    /\ lastCall.ret
    /\ Len(uploaded_files) = 2

====
